---- MODULE Spec2Model ----
(***************************************************************************)
(* State-machine model of colmap::mvs::Model (src/mvs/model.cc): the two   *)
(* readers (ReadFromCOLMAP, ReadFromPMVS), the name/index lookups and the  *)
(* two derived-geometry functions (ComputeDepthRanges,                     *)
(* ComputeSharedPoints).                                                   *)
(*                                                                         *)
(* Conventions of the model:                                               *)
(*  - image ids are 0-based as in the code; TLA+ sequences are 1-based,    *)
(*    so the vector element v[i] of the code is v[i + 1] here;             *)
(*  - every float of the inputs is a small integer, on which float         *)
(*    addition, multiplication and negation are exact; the only inexact    *)
(*    float operation of the code, size * 0.01f and size * 0.99f, is       *)
(*    modelled bit-exactly (RoundF32);                                     *)
(*  - a depth range is stored in units of 1/4, so that the products by     *)
(*    0.75f and 1.25f stay integers: (1.5, 125) is <<6, 500>>;             *)
(*  - strings are sequences of one-character strings.                      *)
(***************************************************************************)
EXTENDS Integers, Sequences, FiniteSets, TLC

VARIABLES
    disk,               \* the directory given to Read (never written)
    pc,                 \* "empty", "loaded", or "failed" (fatal check / exception)
    images,             \* Model::images
    points,             \* Model::points
    image_names_,       \* Model::image_names_
    image_name_to_id_,  \* Model::image_name_to_id_
    depth_maps,         \* Model::depth_maps
    normal_maps,        \* Model::normal_maps
    consistency_graph,  \* Model::consistency_graph
    ret                 \* the last call and the value it returned

vars == <<disk, pc, images, points, image_names_, image_name_to_id_,
          depth_maps, normal_maps, consistency_graph, ret>>

modelVars == <<images, points, image_names_, image_name_to_id_,
               depth_maps, normal_maps, consistency_graph>>

(***************************************************************************)
(* Bounds of the explored inputs.                                          *)
(***************************************************************************)
MaxImages == 2
MaxPoints == 2
MaxObs == 3
MaxSamples == 101

(***************************************************************************)
(* Generic helpers.                                                        *)
(***************************************************************************)
Range(s) == {s[i] : i \in DOMAIN s}

Count(s, x) == Cardinality({i \in DOMAIN s : s[i] = x})

RECURSIVE SeqsUpTo(_, _)
SeqsUpTo(S, n) ==
    IF n = 0 THEN {<<>>}
    ELSE LET shorter == SeqsUpTo(S, n - 1)
         IN  shorter \cup {Append(s, x) : s \in {t \in shorter : Len(t) = n - 1}, x \in S}

Perms(n) == {p \in [1..n -> 1..n] : \A i, j \in 1..n : p[i] = p[j] => i = j}

Permuted(s, p) == [i \in 1..Len(s) |-> s[p[i]]]

Neg(v) == 0 - v

(***************************************************************************)
(* std::vector<T>::resize(n) on a vector of default-constructed slots.     *)
(***************************************************************************)
Resize(v, n) == [i \in 1..n |-> IF i <= Len(v) THEN v[i] ELSE "empty"]

(***************************************************************************)
(* std::unordered_map::emplace: inserts only if the key is absent.         *)
(***************************************************************************)
Emplace(m, k, v) ==
    IF k \in DOMAIN m THEN m
    ELSE [x \in (DOMAIN m) \cup {k} |-> IF x = k THEN v ELSE m[x]]

EmptyMap == <<>>

(***************************************************************************)
(* Collaborators of the canonical reader (base/pose.h, base/camera.h,      *)
(* util/misc.h): path joining, calibration matrix, quaternion to rotation. *)
(* A quaternion is <<w, x, y, z>> of unit norm; matrices are row-major     *)
(* 9-tuples.                                                               *)
(***************************************************************************)
JoinPaths(dir, name) == <<dir>> \o name

CalibrationMatrix(camera) ==
    LET p == camera.params
    IN  <<p[1], 0, p[3], 0, p[2], p[4], 0, 0, 1>>

QuaternionToRotationMatrix(q) ==
    LET w == q[1]
        x == q[2]
        y == q[3]
        z == q[4]
    IN  << 1 - 2 * (y * y + z * z), 2 * (x * y - w * z), 2 * (x * z + w * y),
           2 * (x * y + w * z), 1 - 2 * (x * x + z * z), 2 * (y * z - w * x),
           2 * (x * z - w * y), 2 * (y * z + w * x), 1 - 2 * (x * x + y * y) >>

PinholeCameraModel == "PINHOLE"

(***************************************************************************)
(* The outcome of a reader: ok = FALSE when a CHECK failed or an exception *)
(* left the reader (the process ends, nothing is loaded).                  *)
(***************************************************************************)
FailedLoad ==
    [ok |-> FALSE, images |-> <<>>, points |-> <<>>,
     image_names_ |-> <<>>, image_name_to_id_ |-> EmptyMap]

\* Fault model: the camera model is not checked.
CameraCheckSkipped(camera) == TRUE

(***************************************************************************)
(* Model::ReadFromCOLMAP, lines 45-63: the loop over the registered        *)
(* images. i is the 0-based loop index; acc carries images, image_id_map,  *)
(* image_names_ and image_name_to_id_.                                     *)
(***************************************************************************)
CameraCheck(camera) == camera.model_id = PinholeCameraModel

RECURSIVE ColmapImageLoop(_, _, _)
ColmapImageLoop(recon, i, acc) ==
    IF i >= Len(recon.reg_image_ids) \/ ~acc.ok THEN acc
    ELSE LET image_id == recon.reg_image_ids[i + 1]
             image    == recon.images[image_id]
             camera   == recon.cameras[image.camera_id]
             frame    == [path |-> JoinPaths("images", image.name),
                          K |-> CalibrationMatrix(camera),
                          R |-> QuaternionToRotationMatrix(image.qvec),
                          T |-> image.tvec]
         IN  IF ~CameraCheck(camera) THEN [acc EXCEPT !.ok = FALSE]
             ELSE ColmapImageLoop(recon, i + 1,
                    [ok |-> TRUE,
                     images |-> Append(acc.images, frame),
                     image_id_map |-> Emplace(acc.image_id_map, image_id, i),
                     image_names_ |-> Append(acc.image_names_, image.name),
                     image_name_to_id_ |->
                         Emplace(acc.image_name_to_id_, image.name, i)])

(***************************************************************************)
(* Lines 66-76: the loop over the 3D points; image_id_map.at throws for an *)
(* image id that is not registered.                                        *)
(***************************************************************************)
ColmapTrack(image_id_map, track) ==
    IF \E k \in 1..Len(track) : track[k] \notin DOMAIN image_id_map
    THEN [ok |-> FALSE, track |-> <<>>]
    ELSE [ok |-> TRUE, track |-> [k \in 1..Len(track) |-> image_id_map[track[k]]]]

ColmapPoints(recon, image_id_map) ==
    LET conv == [p \in 1..Len(recon.points3D) |->
                    ColmapTrack(image_id_map, recon.points3D[p].track)]
    IN  [ok |-> \A p \in 1..Len(recon.points3D) : conv[p].ok,
         points |-> [p \in 1..Len(recon.points3D) |->
                        [x |-> recon.points3D[p].xyz[1],
                         y |-> recon.points3D[p].xyz[2],
                         z |-> recon.points3D[p].xyz[3],
                         track |-> conv[p].track]]]

ColmapLoaded(imgs, pts) ==
    IF ~imgs.ok \/ ~pts.ok THEN FailedLoad
    ELSE [ok |-> TRUE, images |-> imgs.images, points |-> pts.points,
          image_names_ |-> imgs.image_names_,
          image_name_to_id_ |-> imgs.image_name_to_id_]

ColmapPointsOf(recon, imgs) ==
    IF ~imgs.ok THEN FailedLoad
    ELSE ColmapLoaded(imgs, ColmapPoints(recon, imgs.image_id_map))

\* Model::ReadFromCOLMAP, lines 39-81; Reconstruction::Read fails its checks
\* for a directory without a reconstruction.
ReadFromCOLMAP(d) ==
    IF d.kind # "COLMAP" THEN FailedLoad
    ELSE ColmapPointsOf(d.recon,
            ColmapImageLoop(d.recon, 0,
                [ok |-> TRUE, images |-> <<>>, image_id_map |-> EmptyMap,
                 image_names_ |-> <<>>, image_name_to_id_ |-> EmptyMap]))

(***************************************************************************)
(* The text of bundle.rd.out after its header line is a sequence of        *)
(* whitespace-separated tokens; a token is a number or something that is   *)
(* not a number. The stream is its read position and its fail bit.         *)
(*                                                                         *)
(* operator>> (lines 94-149): on a failed stream nothing is read and the   *)
(* variable keeps its value (an uninitialized one keeps its indeterminate  *)
(* value); at the end of the file the fail bit is set and the variable     *)
(* keeps its value; on a token that is no number the fail bit is set and   *)
(* the variable becomes 0 (C++11).                                         *)
(***************************************************************************)
Num(v) == [num |-> TRUE, val |-> v]

NotANumber == [num |-> FALSE, val |-> 0]

Extract(toks, st, old) ==
    IF st.fail THEN [st |-> st, val |-> old]
    ELSE IF st.pos > Len(toks)
         THEN [st |-> [pos |-> st.pos, fail |-> TRUE], val |-> old]
    ELSE IF ~toks[st.pos].num
         THEN [st |-> [pos |-> st.pos, fail |-> TRUE], val |-> 0]
    ELSE [st |-> [pos |-> st.pos + 1, fail |-> FALSE], val |-> toks[st.pos].val]

RECURSIVE ExtractN(_, _, _, _)
ExtractN(toks, st, n, old) ==
    IF n = 0 THEN [st |-> st, vals |-> <<>>]
    ELSE LET first == Extract(toks, st, old)
             rest  == ExtractN(toks, first.st, n - 1, old)
         IN  [st |-> rest.st, vals |-> <<first.val>> \o rest.vals]

(***************************************************************************)
(* StringPrintf("%08d.jpg", image_id), line 98, for image_id >= 0.         *)
(***************************************************************************)
DigitChars == <<"0", "1", "2", "3", "4", "5", "6", "7", "8", "9">>

RECURSIVE Decimal(_)
Decimal(n) ==
    IF n < 10 THEN <<DigitChars[n + 1]>>
    ELSE Decimal(n \div 10) \o <<DigitChars[(n % 10) + 1]>>

RECURSIVE ZeroPad(_, _)
ZeroPad(s, width) == IF Len(s) >= width THEN s ELSE ZeroPad(<<"0">> \o s, width)

PmvsImageName(image_id) == ZeroPad(Decimal(image_id), 8) \o <<".", "j", "p", "g">>

\* Fault model: the first row is negated too.
FlipRotationAllRows(R) == [i \in 1..9 |-> Neg(R[i])]

(***************************************************************************)
(* Lines 119-121 and 125-126: the axis flip of the legacy convention.      *)
(***************************************************************************)
FlipRotation(R) == [i \in 1..9 |-> IF i >= 4 THEN Neg(R[i]) ELSE R[i]]

FlipTranslation(T) == <<T[1], Neg(T[2]), Neg(T[3])>>

(***************************************************************************)
(* Lines 97-131: one iteration of the image loop. g is the indeterminate   *)
(* value of the uninitialized locals (k1, k2, R, T).                       *)
(***************************************************************************)
PmvsImage(d, g, st, image_id) ==
    LET image_name == PmvsImageName(image_id)
        f          == Extract(d.tokens, st, 1)
        readable   == image_id + 1 <= Len(d.bitmaps)
        k          == ExtractN(d.tokens, f.st, 2, g)
        R          == ExtractN(d.tokens, k.st, 9, g)
        T          == ExtractN(d.tokens, R.st, 3, g)
    IN  [ok    |-> readable /\ k.vals[1] = 0 /\ k.vals[2] = 0,
         st    |-> T.st,
         name  |-> image_name,
         frame |-> [path |-> JoinPaths("visualize", image_name),
                    K |-> IF readable
                          THEN <<f.val, 0, d.bitmaps[image_id + 1][1] \div 2,
                                 0, f.val, d.bitmaps[image_id + 1][2] \div 2,
                                 0, 0, 1>>
                          ELSE <<f.val, 0, 0, 0, f.val, 0, 0, 0, 1>>,
                    R |-> FlipRotation(R.vals),
                    T |-> FlipTranslation(T.vals)]]

\* Lines 128-130: the image is stored, unless one of its checks failed.
AddImage(acc, img, image_id) ==
    IF ~img.ok THEN [acc EXCEPT !.ok = FALSE]
    ELSE [ok |-> TRUE, st |-> img.st,
          images |-> Append(acc.images, img.frame),
          image_names_ |-> Append(acc.image_names_, img.name),
          image_name_to_id_ |-> Emplace(acc.image_name_to_id_, img.name, image_id)]

RECURSIVE PmvsImageLoop(_, _, _, _, _)
PmvsImageLoop(d, g, num_images, image_id, acc) ==
    IF image_id >= num_images \/ ~acc.ok THEN acc
    ELSE PmvsImageLoop(d, g, num_images, image_id + 1,
                       AddImage(acc, PmvsImage(d, g, acc.st, image_id), image_id))

\* Fault model: the index is compared as a signed integer.
TrackIndexCheckUpperOnly(idx, num_loaded) == idx < num_loaded

(***************************************************************************)
(* Lines 146-151: the track loop of one point. The track was resized to    *)
(* track_len zeros; CHECK_LT compares the int with images.size() as        *)
(* unsigned, so a negative index fails it.                                 *)
(***************************************************************************)
TrackIndexCheck(idx, num_loaded) == idx >= 0 /\ idx < num_loaded

AddTrackEntry(toks, g, num_loaded, acc, idx) ==
    IF ~TrackIndexCheck(idx.val, num_loaded) THEN [acc EXCEPT !.ok = FALSE]
    ELSE [ok |-> TRUE, st |-> ExtractN(toks, idx.st, 3, g).st,
          track |-> Append(acc.track, idx.val)]

RECURSIVE PmvsTrackLoop(_, _, _, _, _, _)
PmvsTrackLoop(toks, g, num_loaded, track_len, i, acc) ==
    IF i >= track_len \/ ~acc.ok THEN acc
    ELSE PmvsTrackLoop(toks, g, num_loaded, track_len, i + 1,
                       AddTrackEntry(toks, g, num_loaded, acc, Extract(toks, acc.st, 0)))

(***************************************************************************)
(* Lines 134-152: one iteration of the point loop. points.resize made the  *)
(* coordinates 0; track.resize(track_len) throws for a negative length.    *)
(***************************************************************************)
PmvsPointHead(toks, g, st) ==
    LET xyz       == ExtractN(toks, st, 3, 0)
        color     == ExtractN(toks, xyz.st, 3, g)
        track_len == Extract(toks, color.st, g)
    IN  [xyz |-> xyz.vals, track_len |-> track_len.val, st |-> track_len.st]

PmvsPointDone(head, tr) ==
    [ok |-> tr.ok, st |-> tr.st,
     point |-> [x |-> head.xyz[1], y |-> head.xyz[2], z |-> head.xyz[3],
                track |-> tr.track]]

PmvsPointTrack(toks, g, num_loaded, head) ==
    IF head.track_len < 0 THEN [ok |-> FALSE, st |-> head.st, point |-> <<>>]
    ELSE PmvsPointDone(head,
            PmvsTrackLoop(toks, g, num_loaded, head.track_len, 0,
                          [ok |-> TRUE, st |-> head.st, track |-> <<>>]))

PmvsPoint(toks, g, num_loaded, st) ==
    PmvsPointTrack(toks, g, num_loaded, PmvsPointHead(toks, g, st))

AddPoint(acc, pt) ==
    IF ~pt.ok THEN [acc EXCEPT !.ok = FALSE]
    ELSE [ok |-> TRUE, st |-> pt.st, points |-> Append(acc.points, pt.point)]

\* The loop of line 134 over the point ids lo..hi, in their order.
RECURSIVE PmvsPointLoop(_, _, _, _, _, _)
PmvsPointLoop(toks, g, num_loaded, lo, hi, acc) ==
    IF lo > hi \/ ~acc.ok THEN acc
    ELSE IF lo = hi THEN AddPoint(acc, PmvsPoint(toks, g, num_loaded, acc.st))
    ELSE PmvsPointLoop(toks, g, num_loaded, ((lo + hi) \div 2) + 1, hi,
                       PmvsPointLoop(toks, g, num_loaded, lo, (lo + hi) \div 2, acc))

(***************************************************************************)
(* Model::ReadFromPMVS, lines 83-157. reserve and resize throw for a       *)
(* negative count; a directory without bundle.rd.out fails the CHECK of    *)
(* line 87.                                                                *)
(***************************************************************************)
PmvsHead(d, g) ==
    LET num_images == Extract(d.tokens, [pos |-> 1, fail |-> FALSE], g)
        num_points == Extract(d.tokens, num_images.st, g)
    IN  [num_images |-> num_images.val, num_points |-> num_points.val,
         st |-> num_points.st]

PmvsLoaded(imgs, pts) ==
    IF ~imgs.ok \/ ~pts.ok THEN FailedLoad
    ELSE [ok |-> TRUE, images |-> imgs.images, points |-> pts.points,
          image_names_ |-> imgs.image_names_,
          image_name_to_id_ |-> imgs.image_name_to_id_]

PmvsPoints(d, g, head, imgs) ==
    IF ~imgs.ok \/ head.num_points < 0 THEN FailedLoad
    ELSE PmvsLoaded(imgs,
            PmvsPointLoop(d.tokens, g, Len(imgs.images), 0, head.num_points - 1,
                          [ok |-> TRUE, st |-> imgs.st, points |-> <<>>]))

PmvsImages(d, g, head) ==
    IF head.num_images < 0 THEN FailedLoad
    ELSE PmvsPoints(d, g, head,
            PmvsImageLoop(d, g, head.num_images, 0,
                          [ok |-> TRUE, st |-> head.st, images |-> <<>>,
                           image_names_ |-> <<>>, image_name_to_id_ |-> EmptyMap]))

ReadFromPMVS(d, g) ==
    IF d.kind # "PMVS" THEN FailedLoad ELSE PmvsImages(d, g, PmvsHead(d, g))

(***************************************************************************)
(* Model::GetImageId and Model::GetImageName, lines 159-169; ok = FALSE    *)
(* when a CHECK fails.                                                     *)
(***************************************************************************)
GetImageIdOf(name_to_id, name) ==
    IF name \in DOMAIN name_to_id
    THEN [ok |-> TRUE, val |-> name_to_id[name]]
    ELSE [ok |-> FALSE, val |-> 0 - 1]

GetImageNameOf(names, image_id) ==
    IF image_id >= 0 /\ image_id < Len(names)
    THEN [ok |-> TRUE, val |-> names[image_id + 1]]
    ELSE [ok |-> FALSE, val |-> <<>>]

(***************************************************************************)
(* IEEE-754 single precision. A float constant c is <<m, e>>, the value    *)
(* m * 2^(-e) with m < 2^24. RoundF32 rounds a positive integer to 24      *)
(* significant bits, ties to even: the rounding of the float product.      *)
(***************************************************************************)
RECURSIVE Pow2(_)
Pow2(k) == IF k = 0 THEN 1 ELSE 2 * Pow2(k - 1)

RECURSIVE BitLength(_)
BitLength(x) == IF x = 0 THEN 0 ELSE 1 + BitLength(x \div 2)

RoundF32(x) ==
    LET len == BitLength(x)
    IN  IF len <= 24 THEN x
        ELSE LET unit == Pow2(len - 24)
                 q    == x \div unit
                 r    == x % unit
             IN  IF 2 * r > unit \/ (2 * r = unit /\ q % 2 = 1)
                 THEN (q + 1) * unit
                 ELSE q * unit

kMinPercentile == <<10737418, 30>>

kMaxPercentile == <<16609444, 24>>

kStretchRatio == 1

\* Fault model: the product is truncated without the float rounding.
PercentileIndexUnrounded(size, c) == (size * c[1]) \div Pow2(c[2])

(***************************************************************************)
(* image_depths[image_depths.size() * kPercentile], lines 202-203: the     *)
(* size is converted to float, multiplied in float, and the product is     *)
(* truncated to an index.                                                  *)
(***************************************************************************)
PercentileIndex(size, c) == RoundF32(size * c[1]) \div Pow2(c[2])

(***************************************************************************)
(* std::sort of a vector<float>, line 198.                                 *)
(***************************************************************************)
InsertSorted(s, x) ==
    LET k == Cardinality({i \in 1..Len(s) : s[i] <= x})
    IN  SubSeq(s, 1, k) \o <<x>> \o SubSeq(s, k + 1, Len(s))

\* acc holds the first Len(acc) elements of s in ascending order.
RECURSIVE InsertionSort(_, _)
InsertionSort(s, acc) ==
    IF Len(acc) = Len(s) THEN acc
    ELSE InsertionSort(s, InsertSorted(acc, s[Len(acc) + 1]))

\* Fault model: the samples are left in the order of collection.
Unsorted(s) == s

Sort(s) == InsertionSort(s, <<>>)

(***************************************************************************)
(* Model::ComputeDepthRanges, lines 171-211.                               *)
(***************************************************************************)
Depth(image, point) ==
    image.R[7] * point.x + image.R[8] * point.y + image.R[9] * point.z + image.T[3]

\* Lines 173-184; acc.ok = FALSE once images.at has thrown.
RECURSIVE TrackDepths(_, _, _, _)
TrackDepths(imgs, point, k, acc) ==
    IF k > Len(point.track) \/ ~acc.ok THEN acc
    ELSE LET image_id == point.track[k]
         IN  IF image_id \notin 0..(Len(imgs) - 1) THEN [acc EXCEPT !.ok = FALSE]
             ELSE TrackDepths(imgs, point, k + 1,
                    IF Depth(imgs[image_id + 1], point) > 0
                    THEN [acc EXCEPT !.depths[image_id + 1] =
                                        Append(@, Depth(imgs[image_id + 1], point))]
                    ELSE acc)

\* The loop of line 173 over the points lo..hi, in their order (the range is
\* halved so that the nesting of the evaluation stays shallow).
RECURSIVE PointDepths(_, _, _, _, _)
PointDepths(imgs, pts, lo, hi, acc) ==
    IF lo > hi \/ ~acc.ok THEN acc
    ELSE IF lo = hi THEN TrackDepths(imgs, pts[lo], 1, acc)
    ELSE PointDepths(imgs, pts, ((lo + hi) \div 2) + 1, hi,
                     PointDepths(imgs, pts, lo, (lo + hi) \div 2, acc))

DepthRange(image_depths) ==
    IF image_depths = <<>> THEN <<0 - 4, 0 - 4>>
    ELSE LET sorted == Sort(image_depths)
             first  == sorted[PercentileIndex(Len(sorted), kMinPercentile) + 1]
             second == sorted[PercentileIndex(Len(sorted), kMaxPercentile) + 1]
         IN  <<first * (4 - kStretchRatio), second * (4 + kStretchRatio)>>

DepthRangesOf(acc) ==
    IF ~acc.ok THEN [ok |-> FALSE, val |-> <<>>]
    ELSE [ok |-> TRUE, val |-> [i \in 1..Len(acc.depths) |-> DepthRange(acc.depths[i])]]

ComputeDepthRangesOf(imgs, pts) ==
    DepthRangesOf(PointDepths(imgs, pts, 1, Len(pts),
                              [ok |-> TRUE, depths |-> [i \in 1..Len(imgs) |-> <<>>]]))

(***************************************************************************)
(* Model::ComputeSharedPoints, lines 213-228. A std::map<int, int> is a    *)
(* function on its keys; m[k] += 1 first inserts k with the value 0.       *)
(***************************************************************************)
Increment(m, k) ==
    IF k \in DOMAIN m THEN [m EXCEPT ![k] = @ + 1]
    ELSE [x \in (DOMAIN m) \cup {k} |-> IF x = k THEN 1 ELSE m[x]]

\* Fault model: only one side of the pair is incremented.
SharedPairOneSided(acc, image_id1, image_id2) ==
    IF image_id1 = image_id2 THEN acc
    ELSE IF {image_id1, image_id2} \subseteq 0..(Len(acc.shared) - 1)
         THEN [acc EXCEPT !.shared[image_id1 + 1] = Increment(@, image_id2)]
    ELSE [acc EXCEPT !.ok = FALSE]

\* Lines 220-223; acc.ok = FALSE once shared_points.at has thrown.
SharedPair(acc, image_id1, image_id2) ==
    IF image_id1 = image_id2 THEN acc
    ELSE IF {image_id1, image_id2} \subseteq 0..(Len(acc.shared) - 1)
         THEN [acc EXCEPT !.shared[image_id1 + 1] = Increment(@, image_id2),
                          !.shared[image_id2 + 1] = Increment(@, image_id1)]
    ELSE [acc EXCEPT !.ok = FALSE]

RECURSIVE SharedInner(_, _, _, _)
SharedInner(track, i, j, acc) ==
    IF j >= i \/ ~acc.ok THEN acc
    ELSE SharedInner(track, i, j + 1, SharedPair(acc, track[i + 1], track[j + 1]))

RECURSIVE SharedOuter(_, _, _)
SharedOuter(track, i, acc) ==
    IF i >= Len(track) \/ ~acc.ok THEN acc
    ELSE SharedOuter(track, i + 1, SharedInner(track, i, 0, acc))

\* The loop of line 215 over the points lo..hi, in their order.
RECURSIVE SharedPoints(_, _, _, _)
SharedPoints(pts, lo, hi, acc) ==
    IF lo > hi \/ ~acc.ok THEN acc
    ELSE IF lo = hi THEN SharedOuter(pts[lo].track, 0, acc)
    ELSE SharedPoints(pts, ((lo + hi) \div 2) + 1, hi,
                      SharedPoints(pts, lo, (lo + hi) \div 2, acc))

SharedPointsOf(acc) ==
    IF ~acc.ok THEN [ok |-> FALSE, val |-> <<>>] ELSE [ok |-> TRUE, val |-> acc.shared]

ComputeSharedPointsOf(imgs, pts) ==
    SharedPointsOf(SharedPoints(pts, 1, Len(pts),
                                [ok |-> TRUE, shared |-> [i \in 1..Len(imgs) |-> EmptyMap]]))

TracksValid(imgs, pts) ==
    \A p \in 1..Len(pts) : \A k \in 1..Len(pts[p].track) :
        pts[p].track[k] \in 0..(Len(imgs) - 1)

(***************************************************************************)
(* The explored inputs. A directory is a record                            *)
(*   kind    which format it holds ("COLMAP": a sparse/ reconstruction,    *)
(*           "PMVS": a bundle.rd.out),                                     *)
(*   recon   the reconstruction read by Reconstruction::Read,              *)
(*   tokens  the tokens of bundle.rd.out after its header line,            *)
(*   bitmaps the sizes <<width, height>> of visualize/%08d.jpg, by index,  *)
(*   scene   what the bundle was written from (frames, points), and        *)
(*   damage  how the written file was damaged afterwards.                  *)
(***************************************************************************)
EmptyRecon == [cameras |-> <<>>, images |-> <<>>, reg_image_ids |-> <<>>, points3D |-> <<>>]

EmptyScene == [frames |-> <<>>, points |-> <<>>]

NoDamage == [kind |-> "none", at |-> 0]

CameraModels == {"PINHOLE", "SIMPLE_RADIAL"}

NameChars == <<"a", "b", "c", "d", "e", "f", "g", "h">>

ColmapName(j) == <<NameChars[j]>>

UpstreamId(k) == 2 * k + 1

UnitQuaternions == <<<<1, 0, 0, 0>>, <<0, 1, 0, 0>>, <<0, 0, 1, 0>>, <<0, 0, 0, 1>>>>

PoseQvec(k) == UnitQuaternions[((k - 1) % 4) + 1]

PoseTvec(k) == <<k - 1, 0, 3 * (k - 1)>>

PointXYZ(p) == <<p - 1, (p + 1) % 2, IF p % 2 = 1 THEN 0 - p ELSE p>>

RECURSIVE TrackLists(_, _, _)
TrackLists(ids, n, budget) ==
    IF n = 0 THEN {<<>>}
    ELSE UNION {{<<t>> \o rest : rest \in TrackLists(ids, n - 1, budget - Len(t))} :
                    t \in SeqsUpTo(ids, budget)}

TrackListsUpTo(ids, n, budget) == UNION {TrackLists(ids, k, budget) : k \in 0..n}

ColmapDisk(n, names, registered, models, tracks) ==
    [kind |-> "COLMAP",
     recon |->
        [cameras |-> [c \in 1..Len(models) |->
                        [model_id |-> models[c], params |-> <<2, 2, 1, 1>>]],
         images |-> [id \in {UpstreamId(k) : k \in 1..n} |->
                        LET k == (id - 1) \div 2
                        IN  [camera_id |-> k, name |-> names[k],
                             qvec |-> PoseQvec(k), tvec |-> PoseTvec(k)]],
         reg_image_ids |->
            LET ks == SelectSeq([k \in 1..n |-> k], LAMBDA k : registered[k])
            IN  [i \in 1..Len(ks) |-> UpstreamId(ks[i])],
         points3D |-> [p \in 1..Len(tracks) |->
                        [xyz |-> PointXYZ(p), track |-> tracks[p]]]],
     tokens |-> <<>>, bitmaps |-> <<>>, scene |-> EmptyScene, damage |-> NoDamage]

\* All images registered and pinhole; the names vary, and may repeat.
ColmapNameInput ==
    \E n \in 0..MaxImages :
        \E names \in [1..n -> {ColmapName(j) : j \in 1..MaxImages}],
           tracks \in TrackListsUpTo({UpstreamId(k) : k \in 1..n}, 1, 1) :
            disk = ColmapDisk(n, names, [k \in 1..n |-> TRUE],
                              [c \in 1..MaxImages |-> "PINHOLE"], tracks)

\* Distinct names; registration and camera models vary; at most one point,
\* seen once, by a registered image or by one that is not.
ColmapCameraInput ==
    \E n \in 0..MaxImages :
        \E registered \in [1..n -> BOOLEAN],
           models \in [1..MaxImages -> CameraModels],
           tracks \in TrackListsUpTo({UpstreamId(k) : k \in 1..n}, 1, 1) :
            disk = ColmapDisk(n, [k \in 1..n |-> ColmapName(k)], registered, models, tracks)

\* All images registered, pinhole and distinctly named; the tracks vary.
ColmapTrackInput ==
    \E n \in 0..MaxImages :
        \E tracks \in TrackListsUpTo({UpstreamId(k) : k \in 1..n}, MaxPoints, MaxObs) :
            disk = ColmapDisk(n, [k \in 1..n |-> ColmapName(k)], [k \in 1..n |-> TRUE],
                              [c \in 1..MaxImages |-> "PINHOLE"], tracks)

(***************************************************************************)
(* Writing a bundle.rd.out from a scene, by the grammar of the format.     *)
(***************************************************************************)
RECURSIVE FlattenRange(_, _, _)
FlattenRange(ss, lo, hi) ==
    IF lo > hi THEN <<>>
    ELSE IF lo = hi THEN ss[lo]
    ELSE FlattenRange(ss, lo, (lo + hi) \div 2)
            \o FlattenRange(ss, ((lo + hi) \div 2) + 1, hi)

Flatten(ss) == FlattenRange(ss, 1, Len(ss))

FrameTokens(fr) ==
    <<Num(fr.f), Num(fr.k1), Num(fr.k2)>>
        \o [i \in 1..9 |-> Num(fr.R[i])] \o [i \in 1..3 |-> Num(fr.T[i])]

PointTokens(pt) ==
    <<Num(pt.xyz[1]), Num(pt.xyz[2]), Num(pt.xyz[3]), Num(0), Num(0), Num(0),
      Num(Len(pt.track))>>
        \o Flatten([i \in 1..Len(pt.track) |->
                        <<Num(pt.track[i]), Num(0), Num(0), Num(0)>>])

BundleTokens(scene) ==
    <<Num(Len(scene.frames)), Num(Len(scene.points))>>
        \o Flatten([i \in 1..Len(scene.frames) |-> FrameTokens(scene.frames[i])])
        \o Flatten([i \in 1..Len(scene.points) |-> PointTokens(scene.points[i])])

Damaged(toks, damage) ==
    IF damage.kind = "cut" THEN SubSeq(toks, 1, damage.at)
    ELSE IF damage.kind = "bad" THEN [toks EXCEPT ![damage.at] = NotANumber]
    ELSE toks

BundleRotations ==
    << <<1, 0, 0, 0, 0 - 1, 0, 0, 0, 0 - 1>>,
       <<0, 1, 0, 1, 0, 0, 0, 0, 1>>,
       <<1, 2, 3, 4, 5, 6, 0 - 7, 0 - 8, 0 - 9>>,
       <<0, 0, 1, 0, 1, 0, 0 - 1, 0, 0>> >>

PmvsFrame(k, variant) ==
    [f  |-> k + 1,
     k1 |-> IF variant = "k1" THEN 1 ELSE 0,
     k2 |-> IF variant = "k2" THEN 0 - 1 ELSE 0,
     R  |-> BundleRotations[((k - 1) % 4) + 1],
     T  |-> <<k, 2 * k, 3 - 3 * k>>]

PmvsDisk(variants, tracks, numBitmaps, damage) ==
    LET scene == [frames |-> [k \in 1..Len(variants) |-> PmvsFrame(k, variants[k])],
                  points |-> [p \in 1..Len(tracks) |->
                                [xyz |-> PointXYZ(p), track |-> tracks[p]]]]
    IN  [kind |-> "PMVS", recon |-> EmptyRecon,
         tokens |-> Damaged(BundleTokens(scene), damage),
         bitmaps |-> [i \in 1..numBitmaps |-> <<4, 2>>],
         scene |-> scene, damage |-> damage]

\* Distortion coefficients, image files and out-of-range track entries vary.
PmvsFrameInput ==
    \E n \in 0..MaxImages :
        \E variants \in [1..n -> {"plain", "k1", "k2"}],
           tracks \in TrackListsUpTo((0 - 1)..n, 1, 2),
           numBitmaps \in {k \in {n - 1, n} : k >= 0} :
            disk = PmvsDisk(variants, tracks, numBitmaps, NoDamage)

\* Well-formed bundles of valid tracks; the tracks vary.
PmvsTrackInput ==
    \E n \in 0..MaxImages :
        \E tracks \in TrackListsUpTo(0..(n - 1), MaxPoints, MaxObs) :
            disk = PmvsDisk([k \in 1..n |-> "plain"], tracks, n, NoDamage)

\* A well-formed bundle cut short at any token, or with any token replaced
\* by a word that is no number.
DamagedTracks(n) == <<<<n - 1>>, <<0, n - 1>>>>

PmvsDamagedInput ==
    \E n \in 1..MaxImages :
        \E at \in 0..Len(BundleTokens(PmvsDisk([k \in 1..n |-> "plain"], DamagedTracks(n),
                                               n, NoDamage).scene)),
           kind \in {"cut", "bad"} :
            /\ kind = "cut" => at < Len(BundleTokens(PmvsDisk([k \in 1..n |-> "plain"],
                                            DamagedTracks(n), n, NoDamage).scene))
            /\ kind = "bad" => at >= 1
            /\ disk = PmvsDisk([k \in 1..n |-> "plain"], DamagedTracks(n), n,
                               [kind |-> kind, at |-> at])

Formats == {"COLMAP", "PMVS", "NVM"}

\* The values an uninitialized local may hold.
Indeterminate == {0 - 1, 0, 1}

(***************************************************************************)
(* The state machine.                                                      *)
(***************************************************************************)
EmptyModel ==
    /\ pc = "empty"
    /\ images = <<>>
    /\ points = <<>>
    /\ image_names_ = <<>>
    /\ image_name_to_id_ = EmptyMap
    /\ depth_maps = <<>>
    /\ normal_maps = <<>>
    /\ consistency_graph = <<>>
    /\ ret = [op |-> "Model", arg |-> <<>>, val |-> TRUE]

Init ==
    /\ \/ ColmapNameInput
       \/ ColmapCameraInput
       \/ ColmapTrackInput
       \/ PmvsFrameInput
       \/ PmvsTrackInput
       \/ PmvsDamagedInput
    /\ EmptyModel

\* Model::Read, lines 29-37, with the reader it dispatches to.
ReadResult(d, format, g) ==
    IF format = "COLMAP" THEN ReadFromCOLMAP(d)
    ELSE IF format = "PMVS" THEN ReadFromPMVS(d, g)
    ELSE FailedLoad

Read ==
    /\ pc = "empty"
    /\ \E format \in Formats, g \in Indeterminate :
         \E r \in {ReadResult(disk, format, g)} :
             /\ pc' = IF r.ok THEN "loaded" ELSE "failed"
             /\ images' = r.images
             /\ points' = r.points
             /\ image_names_' = r.image_names_
             /\ image_name_to_id_' = r.image_name_to_id_
             /\ depth_maps' = Resize(depth_maps, Len(r.images))
             /\ normal_maps' = Resize(normal_maps, Len(r.images))
             /\ consistency_graph' = Resize(consistency_graph, Len(r.images))
             /\ ret' = [op |-> "Read", arg |-> format, val |-> r.ok]
    /\ UNCHANGED disk

GetImageId ==
    /\ pc = "loaded"
    /\ \E name \in Range(image_names_) \cup {<<"z">>} :
         LET r == GetImageIdOf(image_name_to_id_, name)
         IN  /\ pc' = IF r.ok THEN pc ELSE "failed"
             /\ ret' = [op |-> "GetImageId", arg |-> name, val |-> r.val]
    /\ UNCHANGED <<disk, modelVars>>

GetImageName ==
    /\ pc = "loaded"
    /\ \E image_id \in (0 - 1)..Len(image_names_) :
         LET r == GetImageNameOf(image_names_, image_id)
         IN  /\ pc' = IF r.ok THEN pc ELSE "failed"
             /\ ret' = [op |-> "GetImageName", arg |-> image_id, val |-> r.val]
    /\ UNCHANGED <<disk, modelVars>>

ComputeDepthRanges ==
    /\ pc = "loaded"
    /\ \E r \in {ComputeDepthRangesOf(images, points)} :
         /\ pc' = IF r.ok THEN pc ELSE "failed"
         /\ ret' = [op |-> "ComputeDepthRanges", arg |-> <<>>, val |-> r.val]
    /\ UNCHANGED <<disk, modelVars>>

ComputeSharedPoints ==
    /\ pc = "loaded"
    /\ \E r \in {ComputeSharedPointsOf(images, points)} :
         /\ pc' = IF r.ok THEN pc ELSE "failed"
         /\ ret' = [op |-> "ComputeSharedPoints", arg |-> <<>>, val |-> r.val]
    /\ UNCHANGED <<disk, modelVars>>

Next ==
    \/ Read
    \/ GetImageId
    \/ GetImageName
    \/ ComputeDepthRanges
    \/ ComputeSharedPoints

Spec == Init /\ [][Next]_vars

(***************************************************************************)
(* The depth-range scenes: two frames and n points on the optical axis of  *)
(* the first frame, at the depths 1..n from it. The first frame sees every *)
(* point, the second frame the first two. The shape says in which order    *)
(* the points are listed ("asc", "desc"), whether the nearest point lists  *)
(* the first frame twice ("dup"), and whether one more point lies behind   *)
(* the first frame ("behind").                                             *)
(***************************************************************************)
DepthShapes == {"asc", "desc", "dup", "behind"}

DepthPoint(n, shape, p) ==
    LET z == IF p > n THEN 0 - 5
             ELSE IF shape \in {"asc", "dup"} THEN p ELSE n + 1 - p
    IN  [xyz |-> <<0, 0, z>>,
         seen |-> (IF shape = "dup" /\ z = 1 THEN <<1, 1>> ELSE <<1>>)
                    \o (IF p <= 2 THEN <<2>> ELSE <<>>)]

DepthPoints(n, shape) ==
    [p \in 1..(IF shape = "behind" THEN n + 1 ELSE n) |-> DepthPoint(n, shape, p)]

ColmapDepthDisk(n, shape) ==
    LET pts  == DepthPoints(n, shape)
        base == ColmapDisk(2, [k \in 1..2 |-> ColmapName(k)], [k \in 1..2 |-> TRUE],
                           [c \in 1..2 |-> "PINHOLE"], <<>>)
    IN  [base EXCEPT !.recon.points3D =
            [p \in 1..Len(pts) |->
                [xyz |-> pts[p].xyz,
                 track |-> [k \in 1..Len(pts[p].seen) |-> UpstreamId(pts[p].seen[k])]]]]

PmvsDepthDisk(n, shape) ==
    LET pts   == DepthPoints(n, shape)
        scene == [frames |-> [k \in 1..2 |-> PmvsFrame(k, "plain")],
                  points |-> [p \in 1..Len(pts) |->
                                [xyz |-> pts[p].xyz,
                                 track |-> [k \in 1..Len(pts[p].seen) |->
                                                pts[p].seen[k] - 1]]]]
    IN  [kind |-> "PMVS", recon |-> EmptyRecon, tokens |-> BundleTokens(scene),
         bitmaps |-> [i \in 1..2 |-> <<4, 2>>], scene |-> scene, damage |-> NoDamage]

ColmapDepthInput ==
    \E n \in 0..MaxSamples, shape \in DepthShapes : disk = ColmapDepthDisk(n, shape)

PmvsDepthInput ==
    \E n \in 0..MaxSamples, shape \in DepthShapes : disk = PmvsDepthDisk(n, shape)

InitDepth ==
    /\ \/ ColmapDepthInput
       \/ PmvsDepthInput
    /\ EmptyModel

SpecDepth == InitDepth /\ [][Next]_vars

(***************************************************************************)
(* Vocabulary of the properties.                                           *)
(***************************************************************************)
ImageIds == 0..(Len(images) - 1)

JustRead(format) == ret.op = "Read" /\ ret.arg = format

Returned(op) == pc = "loaded" /\ ret.op = op

\* The bundle is exactly what the grammar of the format describes.
WellFormedBundle == disk.kind = "PMVS" /\ disk.damage.kind = "none"

\* Nothing but its track entries can fail the load of the bundle.
CleanFrames ==
    /\ WellFormedBundle
    /\ Len(disk.bitmaps) = Len(disk.scene.frames)
    /\ \A k \in 1..Len(disk.scene.frames) :
          disk.scene.frames[k].k1 = 0 /\ disk.scene.frames[k].k2 = 0

BundleTrackEntries ==
    UNION {Range(disk.scene.points[p].track) : p \in 1..Len(disk.scene.points)}

BundleEntryOutOfRange ==
    \E idx \in BundleTrackEntries : idx \notin 0..(Len(disk.scene.frames) - 1)

ReconTrackEntries ==
    UNION {Range(disk.recon.points3D[p].track) : p \in 1..Len(disk.recon.points3D)}

ReconEntryUnregistered ==
    \E id \in ReconTrackEntries : id \notin Range(disk.recon.reg_image_ids)

RegisteredCameraModels ==
    {disk.recon.cameras[disk.recon.images[id].camera_id].model_id :
        id \in Range(disk.recon.reg_image_ids)}

AllCameraModels ==
    {disk.recon.cameras[c].model_id : c \in 1..Len(disk.recon.cameras)}

(***************************************************************************)
(* C1: after a successful load by either reader, for every frame index i   *)
(* GetImageId(GetImageName(i)) = i, and the names of the loaded frames are *)
(* pairwise distinct.                                                      *)
(***************************************************************************)
C1_NameIndexRoundTrip ==
    pc = "loaded" =>
        /\ \A i \in ImageIds :
              /\ GetImageNameOf(image_names_, i).ok
              /\ GetImageIdOf(image_name_to_id_, GetImageNameOf(image_names_, i).val).ok
              /\ GetImageIdOf(image_name_to_id_, GetImageNameOf(image_names_, i).val).val = i
        /\ \A i, j \in ImageIds :
              image_names_[i + 1] = image_names_[j + 1] => i = j

(***************************************************************************)
(* C2: a track entry that references no loaded frame (PMVS: an image index *)
(* that is negative or not below the number of images; COLMAP: the id of   *)
(* an image that is not registered) makes the load fail, and in every      *)
(* loaded model every element of every track is an index into the frame    *)
(* list. A track entry of a bundle is what the grammar of the format calls *)
(* one, so the first part speaks of well-formed bundles.                   *)
(***************************************************************************)
C2_TrackEntriesValid ==
    /\ pc = "loaded" => TracksValid(images, points)
    /\ (disk.kind = "COLMAP" /\ ReconEntryUnregistered) => pc # "loaded"
    /\ (WellFormedBundle /\ BundleEntryOutOfRange) => pc # "loaded"

C2_Witness ==
    /\ pc = "failed"
    /\ JustRead("PMVS")
    /\ CleanFrames
    /\ Len(disk.scene.frames) > 0
    /\ BundleTrackEntries = {0 - 1}

(***************************************************************************)
(* C3: once a load has completed, the number of frames, the size of the    *)
(* name-to-index table and the lengths of the depth-map, normal-map and    *)
(* consistency-graph slot arrays are all equal.                            *)
(***************************************************************************)
C3_SizesAgree ==
    pc = "loaded" =>
        /\ Cardinality(DOMAIN image_name_to_id_) = Len(images)
        /\ Len(depth_maps) = Len(images)
        /\ Len(normal_maps) = Len(images)
        /\ Len(consistency_graph) = Len(images)

(***************************************************************************)
(* C4: a bundle file that violates the grammar (the tokens end early, or a *)
(* token that must be a number is none) always aborts the PMVS load: the   *)
(* reader never completes on it with a model of all its frames and points. *)
(***************************************************************************)
C4_MalformedBundleAborts ==
    (disk.kind = "PMVS" /\ disk.damage.kind # "none")
        => ~(/\ pc = "loaded"
             /\ Len(images) = Len(disk.scene.frames)
             /\ Len(points) = Len(disk.scene.points)
             /\ \A p \in 1..Len(points) :
                   Len(points[p].track) = Len(disk.scene.points[p].track))

(***************************************************************************)
(* C5, as claimed: loading a COLMAP reconstruction that contains a camera  *)
(* whose model is not the pinhole model fails, whichever images use it.    *)
(***************************************************************************)
C5_AnyNonPinholeCameraFails ==
    (disk.kind = "COLMAP" /\ AllCameraModels # {} /\ AllCameraModels # {PinholeCameraModel})
        => pc # "loaded"

(***************************************************************************)
(* C5, amended: loading a COLMAP reconstruction fails when a registered    *)
(* image uses a camera whose model is not the pinhole model; when every    *)
(* registered image uses a pinhole camera and every track entry is a       *)
(* registered image, the load completes, whatever the other cameras are.   *)
(***************************************************************************)
C5_RegisteredNonPinholeCameraFails ==
    /\ (disk.kind = "COLMAP" /\ RegisteredCameraModels \notin {{}, {PinholeCameraModel}})
          => pc # "loaded"
    /\ (disk.kind = "COLMAP" /\ JustRead("COLMAP") /\ ~ReconEntryUnregistered
            /\ RegisteredCameraModels \in {{}, {PinholeCameraModel}})
          => pc = "loaded"

C5_Witness ==
    /\ pc = "failed"
    /\ disk.kind = "COLMAP"
    /\ JustRead("COLMAP")
    /\ ~ReconEntryUnregistered
    /\ "SIMPLE_RADIAL" \in RegisteredCameraModels

(***************************************************************************)
(* Sorted selection, stated by rank: the element at 0-based position idx   *)
(* of the ascending order of the multiset of the values of samples.        *)
(***************************************************************************)
RankedValue(samples, idx) ==
    CHOOSE v \in Range(samples) :
        /\ Cardinality({x \in DOMAIN samples : samples[x] < v}) <= idx
        /\ idx < Cardinality({x \in DOMAIN samples : samples[x] <= v})

RangeOfSamples(samples) ==
    IF DOMAIN samples = {} THEN <<0 - 4, 0 - 4>>
    ELSE LET n == Cardinality(DOMAIN samples)
         IN  <<3 * RankedValue(samples, n \div 100),
               5 * RankedValue(samples, (99 * n) \div 100)>>

\* One sample for each track entry that names the frame, at a positive depth.
SamplesPerEntry(image_id) ==
    LET entries == UNION {{<<p, k>> : k \in {j \in 1..Len(points[p].track) :
                                                points[p].track[j] = image_id}} :
                            p \in {q \in 1..Len(points) :
                                      Depth(images[image_id + 1], points[q]) > 0}}
    IN  [e \in entries |-> Depth(images[image_id + 1], points[e[1]])]

\* One sample for each point whose track names the frame, at a positive depth.
SamplesPerPoint(image_id) ==
    [p \in {q \in 1..Len(points) :
                /\ image_id \in Range(points[q].track)
                /\ Depth(images[image_id + 1], points[q]) > 0}
        |-> Depth(images[image_id + 1], points[p])]

C7_SharedPointsSymmetric ==
    Returned("ComputeSharedPoints") =>
        /\ Len(ret.val) = Len(images)
        /\ \A a \in ImageIds :
              /\ DOMAIN ret.val[a + 1] \subseteq ImageIds \ {a}
              /\ \A b \in DOMAIN ret.val[a + 1] :
                    /\ a \in DOMAIN ret.val[b + 1]
                    /\ ret.val[b + 1][a] = ret.val[a + 1][b]
                    /\ ret.val[a + 1][b] >= 1

C7_Witness ==
    /\ Returned("ComputeSharedPoints")
    /\ \E a \in ImageIds : \E b \in DOMAIN ret.val[a + 1] : ret.val[a + 1][b] >= 2
    /\ \E p \in 1..Len(points) : \E a \in ImageIds : Count(points[p].track, a) >= 2

(***************************************************************************)
(* C8: for distinct frames a and b, the count stored for (a, b) is the     *)
(* number of points whose track contains both a and b, and there is an     *)
(* entry exactly if that number is at least 1; also for tracks that list a *)
(* frame more than once.                                                   *)
(***************************************************************************)
PointsSeenByBoth(a, b) ==
    Cardinality({p \in 1..Len(points) :
                    a \in Range(points[p].track) /\ b \in Range(points[p].track)})

C8_CountsSharedPoints ==
    Returned("ComputeSharedPoints") =>
        \A a, b \in ImageIds :
            a # b =>
                /\ b \in DOMAIN ret.val[a + 1] <=> PointsSeenByBoth(a, b) >= 1
                /\ b \in DOMAIN ret.val[a + 1] => ret.val[a + 1][b] = PointsSeenByBoth(a, b)

(***************************************************************************)
(* C9: the results of ComputeDepthRanges and ComputeSharedPoints are the   *)
(* same for every order of the points and every order of the elements of   *)
(* every track, and neither function changes the frames, the points or the *)
(* lookup tables.                                                          *)
(***************************************************************************)
RECURSIVE TrackReorderings(_)
TrackReorderings(pts) ==
    IF pts = <<>> THEN {<<>>}
    ELSE {<<[Head(pts) EXCEPT !.track = Permuted(@, tp)]>> \o rest :
            tp \in Perms(Len(Head(pts).track)), rest \in TrackReorderings(Tail(pts))}

Reorderings(pts) ==
    {Permuted(q, pp) : q \in TrackReorderings(pts), pp \in Perms(Len(pts))}

C9_SameForEveryOrder ==
    /\ Returned("ComputeDepthRanges") =>
          \A q \in Reorderings(points) : ComputeDepthRangesOf(images, q).val = ret.val
    /\ Returned("ComputeSharedPoints") =>
          \A q \in Reorderings(points) : ComputeSharedPointsOf(images, q).val = ret.val

C9_OrderIndependent ==
    /\ []C9_SameForEveryOrder
    /\ [][ret'.op \in {"ComputeDepthRanges", "ComputeSharedPoints"}
            => UNCHANGED modelVars]_vars

\* A frame whose samples are collected in an order that is not ascending.
C9_Witness ==
    /\ Returned("ComputeDepthRanges")
    /\ \E i \in 1..Len(images) :
          LET collected == PointDepths(images, points, 1, Len(points),
                                [ok |-> TRUE,
                                 depths |-> [k \in 1..Len(images) |-> <<>>]]).depths[i]
          IN  /\ Len(collected) >= 2
              /\ collected[1] > collected[2]
              /\ ret.val[i] = <<3 * collected[2], 5 * collected[1]>>

(***************************************************************************)
(* C10: for every image read by the PMVS reader, the stored rotation is    *)
(* the 3x3 row-major rotation of the file with its second and third rows   *)
(* negated and its first row unchanged, and the stored translation is the  *)
(* translation of the file with its second and third components negated    *)
(* and its first unchanged. The twelve numbers of image i follow its focal *)
(* length and its two distortion coefficients in the file.                 *)
(***************************************************************************)
FileRotation(i) == [j \in 1..9 |-> disk.tokens[2 + 15 * (i - 1) + 3 + j].val]

FileTranslation(i) == [j \in 1..3 |-> disk.tokens[2 + 15 * (i - 1) + 12 + j].val]

FileHoldsImage(i) ==
    /\ Len(disk.tokens) >= 2 + 15 * i
    /\ \A t \in 1..(2 + 15 * i) : disk.tokens[t].num

C10_AxisFlip ==
    (pc = "loaded" /\ disk.kind = "PMVS") =>
        \A i \in 1..Len(images) :
            FileHoldsImage(i) =>
                /\ \A j \in 1..3 : images[i].R[j] = FileRotation(i)[j]
                /\ \A j \in 4..9 : images[i].R[j] = 0 - FileRotation(i)[j]
                /\ images[i].T[1] = FileTranslation(i)[1]
                /\ images[i].T[2] = 0 - FileTranslation(i)[2]
                /\ images[i].T[3] = 0 - FileTranslation(i)[3]

C10_Witness ==
    /\ pc = "loaded"
    /\ disk.kind = "PMVS"
    /\ Len(images) >= 2
    /\ FileHoldsImage(2)
    /\ \A j \in 1..3 : FileTranslation(2)[j] # 0
    /\ \E j \in 1..3 : FileRotation(2)[j] # 0
    /\ \E j \in 4..9 : FileRotation(2)[j] # 0

====
